---- MODULE Spec2Model ----
(***************************************************************************)
(* A model of src/app.py: the semantic-version tagging job.  Text is       *)
(* modelled as sequences of one-character strings, so that the regular     *)
(* expression, the branch normalisation, removeprefix, isnumeric, int()    *)
(* and the f-strings are computed the way Python computes them.            *)
(***************************************************************************)
EXTENDS Integers, Sequences, FiniteSets, TLC

\* ------------------------------------------------------------- characters

\* The printable ASCII characters in code order; Printable[i] has code 31 + i
\* (code 96, the grave accent, is held by a placeholder: no text of the model uses it).
Printable ==
  << " ", "!", "\"", "#", "$", "%", "&", "'", "(", ")", "*", "+", ",", "-", ".", "/",
     "0", "1", "2", "3", "4", "5", "6", "7", "8", "9", ":", ";", "<", "=", ">", "?",
     "@", "A", "B", "C", "D", "E", "F", "G", "H", "I", "J", "K", "L", "M", "N", "O",
     "P", "Q", "R", "S", "T", "U", "V", "W", "X", "Y", "Z", "[", "\\", "]", "^", "_",
     "<grave>", "a", "b", "c", "d", "e", "f", "g", "h", "i", "j", "k", "l", "m", "n", "o",
     "p", "q", "r", "s", "t", "u", "v", "w", "x", "y", "z", "{", "|", "}", "~" >>

Chars == {Printable[i] : i \in DOMAIN Printable} \cup {"\t"}

\* ord(c): the code point of a character.
Ord == [c \in Chars |-> IF c = "\t" THEN 9
                        ELSE 31 + (CHOOSE i \in DOMAIN Printable : Printable[i] = c)]

Chr(n) == Printable[n - 31]

IsUpper(c) == Ord[c] \in 65..90
IsLowerAlpha(c) == Ord[c] \in 97..122
IsDigit(c) == Ord[c] \in 48..57

\* \w of the re module, on ASCII text.
IsWord(c) == IsUpper(c) \/ IsLowerAlpha(c) \/ IsDigit(c) \/ c = "_"

\* \s of the re module, on the characters of the model.
IsSpace(c) == c \in {" ", "\t"}

\* str.lower() on one character.
LowerChar(c) == IF IsUpper(c) THEN Chr(Ord[c] + 32) ELSE c

\* str.lower()
Lower(s) == [i \in DOMAIN s |-> LowerChar(s[i])]

\* s[from:], 1-based
Drop(s, from) == SubSeq(s, from, Len(s))

\* s.startswith(p)
StartsWith(s, p) == Len(p) <= Len(s) /\ SubSeq(s, 1, Len(p)) = p

\* `sub in s` for strings
Contains(sub, s) ==
  \E i \in 0..(Len(s) - Len(sub)) : SubSeq(s, i + 1, i + Len(sub)) = sub

\* s.removeprefix(p)
RemovePrefix(s, p) == IF StartsWith(s, p) THEN Drop(s, Len(p) + 1) ELSE s

\* s.isnumeric(), on ASCII text: non-empty and all digits.
IsNumeric(s) == Len(s) > 0 /\ \A i \in DOMAIN s : IsDigit(s[i])

\* int(s) for a string of digits.
RECURSIVE ParseInt(_)
ParseInt(s) ==
  IF s = <<>> THEN 0
  ELSE 10 * ParseInt(SubSeq(s, 1, Len(s) - 1)) + (Ord[s[Len(s)]] - 48)

\* str(n) for a natural number.
RECURSIVE FormatInt(_)
FormatInt(n) ==
  IF n < 10 THEN <<Chr(48 + n)>>
  ELSE FormatInt(n \div 10) \o <<Chr(48 + (n % 10))>>

\* Python's order on strings: by code point, a proper prefix first.
RECURSIVE StrLess(_, _)
StrLess(a, b) ==
  IF b = <<>> THEN FALSE
  ELSE IF a = <<>> THEN TRUE
  ELSE IF a[1] # b[1] THEN Ord[a[1]] < Ord[b[1]]
  ELSE StrLess(Tail(a), Tail(b))

\* ------------------------------------------------------------- optional values

None == [is_none |-> TRUE]
Some(x) == [is_none |-> FALSE, value |-> x]

\* ------------------------------------------------------------- commit classifier

GIT_MESSAGE_PREFIX ==
  << <<"b", "u", "i", "l", "d">>,
     <<"c", "h", "o", "r", "e">>,
     <<"c", "i">>,
     <<"d", "o", "c", "s">>,
     <<"f", "e", "a", "t">>,
     <<"f", "e", "a", "t", "u", "r", "e">>,
     <<"f", "i", "x">>,
     <<"p", "e", "r", "f">>,
     <<"r", "e", "f", "a", "c", "t", "o", "r">>,
     <<"s", "t", "y", "l", "e">>,
     <<"t", "e", "s", "t">> >>

\* \b at the boundary before s[p] (p in 1..Len(s)+1).
WordBoundary(s, p) ==
  LET before == p > 1 /\ IsWord(s[p - 1])
      after == p <= Len(s) /\ IsWord(s[p])
  IN before # after

\* `:\s+(?P<comment>.*)$` at position p: the comment, or None.  \s+ is greedy
\* and `.` takes any character of a summary line, so the comment is what
\* follows the whole run of white space.
MatchSeparator(s, p) ==
  IF p + 1 <= Len(s) /\ s[p] = ":" /\ IsSpace(s[p + 1])
  THEN LET rest == {q \in (p + 2)..(Len(s) + 1) :
                      \A k \in (p + 1)..(q - 1) : IsSpace(s[k])}
           q == CHOOSE x \in rest : \A y \in rest : y <= x
       IN Some(Drop(s, q))
  ELSE None

\* `(\((?P<issue>\S*)\))?` followed by the separator, at position p.  The
\* group is tried first, \S* greedy (the longest issue for which the rest
\* matches), then the empty alternative.
MatchIssue(s, p) ==
  LET closes == IF p <= Len(s) /\ s[p] = "("
                THEN {k \in (p + 1)..Len(s) :
                        /\ s[k] = ")"
                        /\ \A j \in (p + 1)..(k - 1) : ~IsSpace(s[j])
                        /\ ~MatchSeparator(s, k + 1).is_none}
                ELSE {}
      plain == MatchSeparator(s, p)
  IN IF closes # {}
     THEN LET k == CHOOSE x \in closes : \A y \in closes : y <= x
          IN [is_none |-> FALSE, issue |-> Some(SubSeq(s, p + 1, k - 1)),
              comment |-> MatchSeparator(s, k + 1).value]
     ELSE IF ~plain.is_none
     THEN [is_none |-> FALSE, issue |-> None, comment |-> plain.value]
     ELSE None

\* One alternative `\bprefix\b` of the type group and the remainder of the
\* pattern, under re.IGNORECASE.
MatchPrefix(s, prefix) ==
  LET n == Len(prefix)
      m == MatchIssue(s, n + 1)
  IN IF /\ n <= Len(s)
        /\ \A i \in 1..n : LowerChar(s[i]) = prefix[i]
        /\ WordBoundary(s, 1)
        /\ WordBoundary(s, n + 1)
        /\ ~m.is_none
     THEN [is_none |-> FALSE, type |-> SubSeq(s, 1, n), issue |-> m.issue,
           comment |-> m.comment]
     ELSE None

\* commit_summary_regex.match(summary): the alternatives of the type group
\* are tried in the order of GIT_MESSAGE_PREFIX; the result is the groupdict
\* of the first that matches, or None.
RECURSIVE MatchFrom(_, _)
MatchFrom(s, i) ==
  IF i > Len(GIT_MESSAGE_PREFIX) THEN None
  ELSE IF ~MatchPrefix(s, GIT_MESSAGE_PREFIX[i]).is_none
  THEN MatchPrefix(s, GIT_MESSAGE_PREFIX[i])
  ELSE MatchFrom(s, i + 1)

get_commit_summary_regex(summary) == MatchFrom(summary, 1)

\* Faulty variant of is_new_release: the loop returns after its first commit.
is_new_release_first_only(cs) ==
  cs # <<>> /\ ~get_commit_summary_regex(Head(cs).summary).is_none

\* is_new_release: the loop over the commits with its early return.
RECURSIVE is_new_release(_)
is_new_release(cs) ==
  IF cs = <<>> THEN FALSE
  ELSE IF ~get_commit_summary_regex(Head(cs).summary).is_none THEN TRUE
  ELSE is_new_release(Tail(cs))

\* ------------------------------------------------------------- text constants

STR_master == <<"m", "a", "s", "t", "e", "r">>
STR_None == <<"N", "o", "n", "e">>
STR_fix == <<"f", "i", "x">>
STR_true == <<"t", "r", "u", "e">>
STR_false == <<"f", "a", "l", "s", "e">>
STR_new_release == <<"n", "e", "w", "_", "r", "e", "l", "e", "a", "s", "e">>
STR_new_release_version == <<"n", "e", "w", "_", "r", "e", "l", "e", "a", "s", "e", "_", "v", "e", "r", "s", "i", "o", "n">>

\* ------------------------------------------------------------- bounds and inputs

\* The longest history a behaviour builds.
MaxCommits == 2

\* Commit timestamps (committed_date), in any order along the history: equal,
\* increasing or decreasing.
Dates == {1, 2}

\* Summaries of the commits developers push.
Summaries ==
  { <<"f", "i", "x", ":", " ", "a">>,
    <<"m", "e", "r", "g", "e", " ", "b">> }

\* The branch the job runs on: the default branch and a branch whose name
\* normalises to "d.x".
Branches ==
  { STR_master,
    <<"D", "/", "x">> }

\* The manifest version of the models' projects.
ManifestVersion == <<"1">>

\* The tree at HEAD: no manifest, a pom.xml with its <version>, a package.json
\* with and without its "version" key.
Trees ==
  { [files |-> {}, version |-> None],
    [files |-> {"pom.xml"}, version |-> Some(ManifestVersion)],
    [files |-> {"package.json"}, version |-> Some(ManifestVersion)],
    [files |-> {"package.json"}, version |-> None] }

\* Tags developers create by hand: a build tag of this version on d.x and a
\* build tag of another version on d.x.
ManualTags ==
  { <<"v", "1", "-", "d", ".", "x", ".", "9">>,
    <<"v", "2", "-", "d", ".", "x", ".", "7">> }

\* requests.codes.created; the other status stands for every refusal.
created == 201
StatusCodes == {created, 422}

\* ------------------------------------------------------------- state

VARIABLES
  current_branch,  \* repo.active_branch.name
  tree,            \* repo.head.commit.tree: the manifest
  commits,         \* the history of the branch, oldest first; the tip is the last
  tags,            \* tag name -> index of the commit it points to
  ref_None,        \* the commit a ref named "None" points to, 0 when there is none
  pushed,          \* the tags pushed to origin
  run,             \* what the last run of main did
  call             \* a direct call of is_new_release or generate_release_notes

vars == <<current_branch, tree, commits, tags, ref_None, pushed, run, call>>

NoCall == [fn |-> "none", commits |-> <<>>, returned |-> FALSE, notes |-> <<>>]

NoRun ==
  [ state |-> "none",            \* "none", "returned" or "raised"
    exit_code |-> 0,
    exception |-> "",
    dry_run |-> FALSE,
    status_code |-> 0,           \* the status the release API answers this run
    repo_type |-> "",
    last_tag |-> None,
    commits |-> <<>>,
    create_new_release |-> FALSE,
    version_string |-> None,
    created_tag |-> None,
    requests |-> <<>>,
    output |-> <<>> ]

\* ------------------------------------------------------------- git capability

\* str(commit): the name a commit goes by in a revision range.
Sha(i) == <<"c">> \o FormatInt(i)

\* "\n".join(names)
RECURSIVE JoinLines(_)
JoinLines(names) ==
  IF names = <<>> THEN <<>>
  ELSE IF Len(names) = 1 THEN names[1]
  ELSE names[1] \o <<"\n">> \o JoinLines(Tail(names))

\* text.split("\n"): never empty, "" gives [""].
RECURSIVE SplitLines(_)
SplitLines(text) ==
  IF \E i \in DOMAIN text : text[i] = "\n"
  THEN LET i == CHOOSE x \in DOMAIN text :
                  text[x] = "\n" /\ \A y \in 1..(x - 1) : text[y] # "\n"
       IN <<SubSeq(text, 1, i - 1)>> \o SplitLines(Drop(text, i + 1))
  ELSE <<text>>

RECURSIVE SortedNames(_)
SortedNames(S) ==
  IF S = {} THEN <<>>
  ELSE LET m == CHOOSE x \in S : \A y \in S \ {x} : StrLess(x, y)
       IN <<m>> \o SortedNames(S \ {m})

\* repo.git.tag("--merged", branch_name): the names of the tags reachable
\* from the branch, one a line, in git's order (by name).
git_tag_merged == JoinLines(SortedNames(DOMAIN tags))

\* git rev-parse of a revision name: the commit, or 0 for a bad revision.
rev_parse(name) ==
  IF \E i \in DOMAIN commits : Sha(i) = name
  THEN CHOOSE i \in DOMAIN commits : Sha(i) = name
  ELSE IF name = STR_None THEN ref_None
  ELSE 0

\* re.sub(r"[^\w\s]", ".", branch_name).lower()
NormalizeBranch(branch_name) ==
  Lower([i \in DOMAIN branch_name |->
           IF IsWord(branch_name[i]) \/ IsSpace(branch_name[i])
           THEN branch_name[i] ELSE "."])

\* max(tags, key=committed_date): the first of the latest.
RECURSIVE MaxByDate(_, _)
MaxByDate(best, rest) ==
  IF rest = <<>> THEN best
  ELSE IF commits[tags[Head(rest)]].committed_date > commits[tags[best]].committed_date
  THEN MaxByDate(Head(rest), Tail(rest))
  ELSE MaxByDate(best, Tail(rest))

\* get_last_tag: [exception, value], value the name of the tag or None.
\* repo.tag(name).commit raises ValueError for a name that is no tag.
get_last_tag(branch_name) ==
  LET names == SplitLines(git_tag_merged)
      filter == NormalizeBranch(branch_name)
      listed == IF branch_name = STR_master THEN names
                ELSE SelectSeq(names, LAMBDA tag : Contains(filter, tag))
  IN IF listed = <<>> THEN [exception |-> "", value |-> None]
     ELSE IF \E i \in DOMAIN listed : listed[i] \notin DOMAIN tags
     THEN [exception |-> "ValueError", value |-> None]
     ELSE [exception |-> "", value |-> Some(MaxByDate(Head(listed), Tail(listed)))]

\* get_commits_between: [exception, value]; start_commit is a commit index or
\* None, and the range is named f"{start_commit}..{end_commit}".  The commits
\* come newest first.
get_commits_between(start_commit, end_commit) ==
  LET start_name == IF start_commit.is_none THEN STR_None ELSE Sha(start_commit.value)
      from == rev_parse(start_name)
      to == rev_parse(Sha(end_commit))
  IN IF from = 0 \/ to = 0
     THEN [exception |-> "GitCommandError", value |-> <<>>]
     ELSE [exception |-> "",
           value |-> [k \in 1..(IF to > from THEN to - from ELSE 0) |-> commits[to - k + 1]]]

\* ------------------------------------------------------------- release notes

\* generate_release_notes: the three buckets handed to the template.  The
\* template rendering is external; the notes are the data it is given.
RECURSIVE generate_release_notes(_, _)
generate_release_notes(version, cs) ==
  IF cs = <<>>
  THEN [version |-> version, version_feature |-> <<>>, version_fix |-> <<>>,
        version_other |-> <<>>]
  ELSE LET notes == generate_release_notes(version, SubSeq(cs, 1, Len(cs) - 1))
           commit == cs[Len(cs)]
           semver_commit == get_commit_summary_regex(commit.summary)
       IN IF ~semver_commit.is_none
          THEN IF semver_commit.type \in {STR_fix}
               THEN [notes EXCEPT !.version_fix = Append(@, semver_commit)]
               ELSE [notes EXCEPT !.version_feature = Append(@, semver_commit)]
          ELSE [notes EXCEPT !.version_other = Append(@, commit.summary)]

\* add_github_output: the output file with the line f"{name}={value}\n" appended.
add_github_output(output, name, value) == output \o name \o <<"=">> \o value \o <<"\n">>

\* len(tag_name.split("-")) > 1
IsPrerelease(tag_name) == \E i \in DOMAIN tag_name : tag_name[i] = "-"

\* Faulty variant of create_gh_release: a status other than "created" raises
\* (raise_for_status), so the run aborts after the tag is pushed.
create_gh_release_raising(tag_name, release_notes, status_code) ==
  [ exception |-> IF status_code = created THEN "" ELSE "HTTPError",
    request |-> [ tag_name |-> tag_name,
                  name |-> tag_name,
                  prerelease |-> IsPrerelease(tag_name),
                  make_latest |-> IF IsPrerelease(tag_name) THEN STR_false ELSE STR_true,
                  body |-> release_notes,
                  status_code |-> status_code ] ]

\* create_gh_release: the request that is posted.  The status of the response
\* is only printed: no status raises.
create_gh_release(tag_name, release_notes, status_code) ==
  [ exception |-> "",
    request |-> [ tag_name |-> tag_name,
                  name |-> tag_name,
                  prerelease |-> IsPrerelease(tag_name),
                  make_latest |-> IF IsPrerelease(tag_name) THEN STR_false ELSE STR_true,
                  body |-> release_notes,
                  status_code |-> status_code ] ]

\* Faulty variant of get_repo_type: no "unknown", a tree without pom.xml is
\* taken for a Node project.
get_repo_type_never_unknown ==
  IF "pom.xml" \in tree.files THEN "maven" ELSE "nodejs"

\* get_repo_type
get_repo_type ==
  IF "pom.xml" \in tree.files THEN "maven"
  ELSE IF "package.json" \in tree.files THEN "nodejs"
  ELSE "unknown"

\* ------------------------------------------------------------- main

\* Faulty variant of ResolveVersion: the build number of the last tag is not
\* incremented.
ResolveVersion_same_build(branch, version_number, last_tag) ==
  IF branch \in {STR_master}
  THEN version_number
  ELSE LET pre_release == NormalizeBranch(branch)
           prefix == <<"v">> \o version_number \o <<"-">> \o pre_release \o <<".">>
           last_tag_build == IF ~last_tag.is_none
                             THEN RemovePrefix(last_tag.value, prefix) ELSE <<>>
           build_number == IF IsNumeric(last_tag_build)
                           THEN ParseInt(last_tag_build) ELSE 1
       IN prefix \o FormatInt(build_number)

\* Lines 166-175 of main: the version string of the next tag.
ResolveVersion(branch, version_number, last_tag) ==
  IF branch \in {STR_master}
  THEN version_number
  ELSE LET pre_release == NormalizeBranch(branch)
           prefix == <<"v">> \o version_number \o <<"-">> \o pre_release \o <<".">>
           last_tag_build == IF ~last_tag.is_none
                             THEN RemovePrefix(last_tag.value, prefix) ELSE <<>>
           build_number == IF IsNumeric(last_tag_build)
                           THEN ParseInt(last_tag_build) + 1 ELSE 1
       IN prefix \o FormatInt(build_number)

Raised(r, exception) == [r EXCEPT !.state = "raised", !.exception = exception]
Returned(r, exit_code) == [r EXCEPT !.state = "returned", !.exit_code = exit_code]

\* Lines 178-183 of main: the mutating operations of a live release.  The
\* result is the run's record and the repository after it.
Publish(r, version_string, status_code) ==
  IF version_string \in DOMAIN tags
  THEN \* repo.create_tag: fatal: tag already exists
       [run |-> Raised(r, "GitCommandError"), tags |-> tags, pushed |-> pushed]
  ELSE LET release_notes == generate_release_notes(version_string, r.commits)
           posted == create_gh_release(version_string, release_notes, status_code)
           r1 == [r EXCEPT !.created_tag = Some(version_string)]
           new_tags == (version_string :> Len(commits)) @@ tags
           new_pushed == pushed \cup {version_string}
       IN IF posted.exception # ""
          THEN [run |-> Raised(r1, posted.exception), tags |-> new_tags,
                pushed |-> new_pushed]
          ELSE [run |-> [r1 EXCEPT !.requests = Append(@, posted.request),
                                   !.output = add_github_output(
                                       @, STR_new_release_version, version_string)],
                tags |-> new_tags, pushed |-> new_pushed]

\* Lines 186-189 of main.
Finish(res) ==
  IF res.run.state = "raised" THEN res
  ELSE [res EXCEPT !.run =
          Returned(IF ~res.run.dry_run
                   THEN [res.run EXCEPT !.output = add_github_output(
                           @, STR_new_release,
                           IF res.run.create_new_release THEN STR_true ELSE STR_false)]
                   ELSE res.run,
                   0)]

\* Lines 155-183 of main.
Release(r, status_code) ==
  LET same == [run |-> r, tags |-> tags, pushed |-> pushed]
  IN IF r.create_new_release \/ r.dry_run
     THEN IF tree.version.is_none
          THEN \* pom.find(...) is None / package_json has no "version"
               [same EXCEPT !.run = Raised(r, IF r.repo_type = "maven"
                                              THEN "AttributeError" ELSE "KeyError")]
          ELSE LET version_string ==
                     ResolveVersion(current_branch, tree.version.value, r.last_tag)
                   r1 == [r EXCEPT !.version_string = Some(version_string)]
               IN IF ~r.dry_run
                  THEN Publish(r1, version_string, status_code)
                  ELSE [same EXCEPT !.run = r1]
     ELSE same

\* main: the run's record and the repository after it.
main(dry_run, status_code) ==
  LET r0 == [NoRun EXCEPT !.dry_run = dry_run, !.status_code = status_code,
                          !.repo_type = get_repo_type]
      same(r) == [run |-> r, tags |-> tags, pushed |-> pushed]
      last == get_last_tag(current_branch)
  IN IF r0.repo_type = "unknown" THEN same(Returned(r0, 1))
     ELSE IF last.exception # "" THEN same(Raised(r0, last.exception))
     ELSE LET last_tag == last.value
              last_tag_commit == IF ~last_tag.is_none
                                 THEN Some(tags[last_tag.value]) ELSE None
              between == get_commits_between(last_tag_commit, Len(commits))
              r1 == [r0 EXCEPT !.last_tag = last_tag]
          IN IF between.exception # "" THEN same(Raised(r1, between.exception))
             ELSE Finish(Release([r1 EXCEPT !.commits = between.value,
                                            !.create_new_release =
                                                is_new_release(between.value)],
                                 status_code))

\* ------------------------------------------------------------- actions

Init ==
  /\ current_branch \in Branches
  /\ tree \in Trees
  /\ \E s \in Summaries, d \in Dates :
       commits = <<[summary |-> s, committed_date |-> d]>>
  /\ tags = <<>>
  /\ ref_None \in 0..1
  /\ pushed = {}
  /\ run = NoRun
  /\ call = NoCall

\* A developer pushes a commit to the branch.
DevCommit ==
  /\ Len(commits) < MaxCommits
  /\ \E s \in Summaries, d \in Dates :
       commits' = Append(commits, [summary |-> s, committed_date |-> d])
  /\ run' = NoRun
  /\ UNCHANGED <<current_branch, tree, tags, ref_None, pushed, call>>

\* A developer tags a commit of the branch by hand.
DevTag ==
  /\ \E name \in ManualTags \ DOMAIN tags, i \in DOMAIN commits :
       tags' = (name :> i) @@ tags
  /\ run' = NoRun
  /\ UNCHANGED <<current_branch, tree, commits, ref_None, pushed, call>>

\* One run of the job outside CI (GITHUB_ACTIONS is not "true").
DryRun ==
  LET res == main(TRUE, created)
  IN /\ run' = res.run
     /\ tags' = res.tags
     /\ pushed' = res.pushed
     /\ UNCHANGED <<current_branch, tree, commits, ref_None, call>>

\* One live run of the job, with the status the release API answers.
LiveRun ==
  \E status_code \in StatusCodes :
    LET res == main(FALSE, status_code)
    IN /\ run' = res.run
       /\ tags' = res.tags
       /\ pushed' = res.pushed
       /\ UNCHANGED <<current_branch, tree, commits, ref_None, call>>

Next == DevCommit \/ DevTag \/ DryRun \/ LiveRun

Spec == Init /\ [][Next]_vars

\* ------------------------------------------------------------- the classifier alone

\* The longest list handed to is_new_release and generate_release_notes.
MaxList == 2

\* Summaries around the grammar: each type spelling, with and without an
\* issue, and the near misses.
SampleSummaries ==
  { <<"f", "i", "x", ":", " ", "a">>,
    <<"F", "i", "x", ":", " ", "a">>,
    <<"F", "I", "X", "(", "x", ")", ":", " ", "a">>,
    <<"f", "e", "a", "t", ":", " ", "a">>,
    <<"F", "e", "a", "t", "u", "r", "e", "(", "A", "-", "1", ")", ":", " ", " ", "b">>,
    <<"c", "i", ":", "\t", "a">>,
    <<"f", "i", "x", "(", ")", ":", " ">>,
    <<"f", "i", "x", "(", "a", ")", "b", ")", ":", " ", "c">>,
    <<"f", "i", "x", ":", "a">>,
    <<"f", "i", "x", " ", "a">>,
    <<"f", "i", "x", "e", "s", ":", " ", "a">>,
    <<" ", "f", "i", "x", ":", " ", "a">>,
    <<"f", "i", "x", "(", "a", " ", "b", ")", ":", " ", "c">>,
    <<"f", "i", "x", " ", "(", "a", ")", ":", " ", "b">>,
    <<"m", "e", "r", "g", "e", " ", "b">> }

RECURSIVE CommitLists(_)
CommitLists(n) ==
  IF n = 0 THEN {<<>>}
  ELSE LET shorter == CommitLists(n - 1)
       IN shorter \cup {Append(cs, [summary |-> s, committed_date |-> 1]) :
                          cs \in {l \in shorter : Len(l) = n - 1}, s \in SampleSummaries}

InitClassify ==
  /\ current_branch = STR_master
  /\ tree = [files |-> {"pom.xml"}, version |-> Some(ManifestVersion)]
  /\ commits = <<>>
  /\ tags = <<>>
  /\ ref_None = 0
  /\ pushed = {}
  /\ run = NoRun
  /\ call \in {[NoCall EXCEPT !.commits = cs] : cs \in CommitLists(MaxList)}

CallIsNewRelease ==
  /\ call.fn = "none"
  /\ call' = [call EXCEPT !.fn = "is_new_release",
                          !.returned = is_new_release(call.commits)]
  /\ UNCHANGED <<current_branch, tree, commits, tags, ref_None, pushed, run>>

CallGenerateReleaseNotes ==
  /\ call.fn = "none"
  /\ call' = [call EXCEPT !.fn = "generate_release_notes",
                          !.notes = generate_release_notes(ManifestVersion, call.commits)]
  /\ UNCHANGED <<current_branch, tree, commits, tags, ref_None, pushed, run>>

NextClassify == CallIsNewRelease \/ CallGenerateReleaseNotes

SpecClassify == InitClassify /\ [][NextClassify]_vars

\* ------------------------------------------------------------- the claims' vocabulary

\* The fixed prefix vocabulary, as a set.
Vocabulary == {GIT_MESSAGE_PREFIX[i] : i \in DOMAIN GIT_MESSAGE_PREFIX}

\* The grammar of a classified summary, stated by position: a vocabulary word
\* in any letter case up to n, an optional parenthesised issue token, a colon
\* at p and white space after it.
InGrammar(s) ==
  \E n \in 1..Len(s) :
    /\ Lower(SubSeq(s, 1, n)) \in Vocabulary
    /\ \E p \in (n + 1)..(Len(s) - 1) :
         /\ \/ p = n + 1
            \/ /\ p >= n + 3
               /\ s[n + 1] = "("
               /\ s[p - 1] = ")"
               /\ \A j \in (n + 2)..(p - 2) : ~IsSpace(s[j])
         /\ s[p] = ":"
         /\ IsSpace(s[p + 1])

\* The type of a summary of the grammar is `fix`, in any letter case.
IsFixSummary(s) ==
  /\ InGrammar(s)
  /\ Len(s) >= 4
  /\ Lower(SubSeq(s, 1, 3)) = STR_fix
  /\ s[4] \in {"(", ":"}

RunDone == run.state # "none"
OnMaster == current_branch = STR_master
KnownType == tree.files \cap {"pom.xml", "package.json"} # {}
VersionComputed == RunDone /\ ~run.version_string.is_none

\* v<base-version>-<normalized-branch>.
BuildPrefix ==
  <<"v">> \o ManifestVersion \o <<"-">> \o NormalizeBranch(current_branch) \o <<".">>

\* The tags the last run found: all but the one it created.
TagsBefore == DOMAIN tags \ (IF run.created_tag.is_none THEN {} ELSE {run.created_tag.value})

\* The whole history, newest first.
WholeHistory == [k \in 1..Len(commits) |-> commits[Len(commits) - k + 1]]

\* ------------------------------------------------------------- C1

\* C1: is_new_release is false for the empty list, and true exactly when the
\* summary of at least one commit of the list is in the classifier grammar,
\* whatever its type.
C1_IsNewRelease ==
  call.fn = "is_new_release" =>
    (call.returned <=> \E i \in DOMAIN call.commits : InGrammar(call.commits[i].summary))

\* is_new_release was called on a list whose first summary is outside the
\* grammar and whose second is a capitalised `Feature` with an issue.
C1_Witness ==
  /\ call.fn = "is_new_release"
  /\ call.returned
  /\ Len(call.commits) = 2
  /\ call.commits[1].summary = <<"m", "e", "r", "g", "e", " ", "b">>
  /\ call.commits[2].summary = <<"F", "e", "a", "t", "u", "r", "e", "(", "A", "-", "1", ")", ":", " ", " ", "b">>

\* ------------------------------------------------------------- C2

\* C2: off the default branch, a last tag named vV-B.N with N numeric gives
\* vV-B.(N+1); no last tag, or a last tag with a non-numeric remainder after
\* the prefix vV-B. is stripped, gives vV-B.1.
C2_ResolveVersion ==
  (VersionComputed /\ ~OnMaster) =>
    LET last_tag == run.last_tag
        version == run.version_string.value
    IN IF ~last_tag.is_none /\ StartsWith(last_tag.value, BuildPrefix)
          /\ IsNumeric(Drop(last_tag.value, Len(BuildPrefix) + 1))
       THEN version = BuildPrefix \o
                      FormatInt(ParseInt(Drop(last_tag.value, Len(BuildPrefix) + 1)) + 1)
       ELSE IF last_tag.is_none \/ ~IsNumeric(RemovePrefix(last_tag.value, BuildPrefix))
       THEN version = BuildPrefix \o <<"1">>
       ELSE TRUE

\* A run on D/x whose last tag is v1-d.x.9 resolved v1-d.x.10.
C2_Witness ==
  /\ run.state = "returned"
  /\ ~OnMaster
  /\ run.last_tag = Some(<<"v", "1", "-", "d", ".", "x", ".", "9">>)
  /\ run.version_string = Some(<<"v", "1", "-", "d", ".", "x", ".", "1", "0">>)

\* ------------------------------------------------------------- C3

\* C3: on master the resolved version, and so the tag created and pushed, is
\* v<base-version>.
C3_MasterVersion ==
  (VersionComputed /\ OnMaster) =>
    /\ run.version_string.value = <<"v">> \o ManifestVersion
    /\ ~run.created_tag.is_none => run.created_tag.value = <<"v">> \o ManifestVersion

\* ------------------------------------------------------------- C4

\* C4: off the default branch the build number is one more than the numeric
\* suffix of the most recent tag named v<base-version>-<normalized-branch>.<digits>,
\* and 1 when there is none; so the name resolved is never one already used.
C4_BuildNumber ==
  (VersionComputed /\ ~OnMaster) =>
    LET qualifying == {t \in TagsBefore :
                         /\ StartsWith(t, BuildPrefix)
                         /\ IsNumeric(Drop(t, Len(BuildPrefix) + 1))}
        recent == {t \in qualifying :
                     \A u \in qualifying :
                       commits[tags[u]].committed_date <= commits[tags[t]].committed_date}
        version == run.version_string.value
    IN /\ IF qualifying = {} THEN version = BuildPrefix \o <<"1">>
          ELSE \E t \in recent :
                 version = BuildPrefix \o
                           FormatInt(ParseInt(Drop(t, Len(BuildPrefix) + 1)) + 1)
       /\ ~run.dry_run => version \notin TagsBefore

\* ------------------------------------------------------------- C5

\* C5: with no reachable tag (master), or none that contains the normalized
\* branch token (other branches), the run does not fail on that: no last tag,
\* and the decision is taken over the whole history.
C5_NoTag ==
  (/\ RunDone
   /\ KnownType
   /\ IF OnMaster THEN TagsBefore = {}
      ELSE \A t \in TagsBefore : ~Contains(NormalizeBranch(current_branch), t)) =>
    /\ run.last_tag.is_none
    /\ run.exception \notin {"ValueError", "GitCommandError"}
    /\ run.commits = WholeHistory

\* ------------------------------------------------------------- C6

\* C6: generate_release_notes puts every commit in exactly one bucket: a `fix`
\* type in any letter case in the fix bucket, any other type in the feature
\* bucket, every summary outside the grammar in the other bucket, as it is.
C6_Buckets ==
  call.fn = "generate_release_notes" =>
    LET summaries == [i \in DOMAIN call.commits |-> call.commits[i].summary]
        IsFeature(s) == InGrammar(s) /\ ~IsFixSummary(s)
        IsOther(s) == ~InGrammar(s)
    IN /\ Len(call.notes.version_fix) = Len(SelectSeq(summaries, IsFixSummary))
       /\ Len(call.notes.version_feature) = Len(SelectSeq(summaries, IsFeature))
       /\ call.notes.version_other = SelectSeq(summaries, IsOther)
       /\ \A i \in DOMAIN call.notes.version_fix :
            Lower(call.notes.version_fix[i].type) = STR_fix
       /\ \A i \in DOMAIN call.notes.version_feature :
            Lower(call.notes.version_feature[i].type) # STR_fix

\* ------------------------------------------------------------- C7

\* C7: a live run on a recognized project (its manifest holding a version)
\* creates and pushes a tag and requests a release exactly when a commit since
\* the last tag classifies; when none does it creates nothing, requests
\* nothing and writes new_release=false alone.
C7_LiveRelease ==
  (RunDone /\ ~run.dry_run /\ KnownType /\ ~tree.version.is_none) =>
    LET since == IF run.last_tag.is_none THEN WholeHistory
                 ELSE [k \in 1..(Len(commits) - tags[run.last_tag.value]) |->
                         commits[Len(commits) - k + 1]]
        classifies == \E i \in DOMAIN since : InGrammar(since[i].summary)
        released == /\ ~run.created_tag.is_none
                    /\ run.created_tag.value \in DOMAIN tags
                    /\ run.created_tag.value \in pushed
                    /\ Len(run.requests) = 1
    IN /\ released <=> classifies
       /\ ~classifies =>
            /\ run.created_tag.is_none
            /\ run.requests = <<>>
            /\ run.output = STR_new_release \o <<"=">> \o STR_false \o <<"\n">>

\* ------------------------------------------------------------- C8

\* C8: a live run that created its tag ends the same way whatever status the
\* release API answers: the tag stays, created and pushed, the output is
\* new_release_version=<version> and then new_release=true, the exit code 0.
C8_ReleaseStatus ==
  (RunDone /\ ~run.dry_run /\ ~run.created_tag.is_none) =>
    /\ run.state = "returned"
    /\ run.exit_code = 0
    /\ run.created_tag = run.version_string
    /\ run.created_tag.value \in DOMAIN tags
    /\ run.created_tag.value \in pushed
    /\ run.output = STR_new_release_version \o <<"=">> \o run.created_tag.value \o <<"\n">>
                    \o STR_new_release \o <<"=">> \o STR_true \o <<"\n">>

\* A live release whose HTTP call was answered with a status other than
\* "created".
C8_Witness ==
  /\ run.state = "returned"
  /\ ~run.dry_run
  /\ ~run.created_tag.is_none
  /\ Len(run.requests) = 1
  /\ run.requests[1].status_code # created
  /\ run.status_code # created

\* ------------------------------------------------------------- C9

\* C9: with neither pom.xml nor package.json at the tip, main returns 1 with
\* nothing written, no tag created or pushed and no release requested, live or
\* dry; a run that detects a project type and returns, returns 0.
C9_UnknownType ==
  /\ (RunDone /\ ~KnownType) =>
       /\ run.state = "returned"
       /\ run.exit_code = 1
       /\ run.output = <<>>
       /\ run.created_tag.is_none
       /\ run.requests = <<>>
  /\ (run.state = "returned" /\ KnownType) => run.exit_code = 0

\* A live run on a tree with no manifest returned 1.
C9_Witness ==
  /\ run.state = "returned"
  /\ ~run.dry_run
  /\ ~KnownType
  /\ run.exit_code = 1

\* ------------------------------------------------------------- C10

\* C10: a dry run on a project whose manifest holds a version computes the
\* next version string for every commit list, branch and tag set, and creates
\* no tag, requests no release and writes no output.
C10_DryRun ==
  (RunDone /\ run.dry_run /\ KnownType /\ ~tree.version.is_none) =>
    /\ ~run.version_string.is_none
    /\ run.created_tag.is_none
    /\ run.requests = <<>>
    /\ run.output = <<>>

====
